---- MODULE Spec2Model ----
(***************************************************************************)
(* Model of the LLM-Transceiver example: the Server of src/server.py (its  *)
(* data-channel receive path, its ICE connection handling and start/stop)  *)
(* and the dual-transport Client of src/client.py.                         *)
(***************************************************************************)
EXTENDS Integers, Sequences, FiniteSets, TLC

\* ------------------------------------------------------------ bounds
\* Number of inbound data-channel frames in one run.
MaxFrames == 5
\* Number of state changes the transport engine reports in one run.
MaxIceEvents == 4
\* Number of connect_to_server / toggle_protocol calls in one run.
MaxOps == 5
\* Number of send_text / send_file calls in one run.
MaxSenders == 3
\* Number of chunks of the largest file sent.
MaxChunks == 2
\* Number of messages the server sends on the WebSocket connection in one run.
MaxMessages == 4
\* Number of receive_* calls on the realtime connection in one run.
MaxReceives == 3

\* ------------------------------------------------------------ values
None == "None"
\* Server.__init__: self.received_file_path = 'server_received_file.bin'
DefaultPath == "server_received_file.bin"
\* A file_start frame that carries no "filename" field.
NoFilename == "<no filename>"
Filenames == {"f.bin"}
Paths == Filenames \cup {DefaultPath}
\* A path at which no file exists (-1 is no byte).
NoFile == <<-1>>
Texts == {"hi"}
\* Payloads of binary frames (byte strings).
Payloads == {<<1>>, <<2, 3>>}

Frame(kind, text, bytes, filename) ==
    [kind |-> kind, text |-> text, bytes |-> bytes, filename |-> filename]

\* The frames the peer can send on the data channel: the three JSON control
\* frames, raw binary frames, a JSON object of an unknown "type", and a text
\* frame that is not JSON.
Frames ==
    {Frame("text", t, <<>>, NoFilename) : t \in Texts}
    \cup {Frame("file_start", "", <<>>, f) : f \in Filenames \cup {NoFilename}}
    \cup {Frame("file_end", "", <<>>, NoFilename)}
    \cup {Frame("binary", "", b, NoFilename) : b \in Payloads}
    \cup {Frame("unknown", "", <<>>, NoFilename)}
    \cup {Frame("malformed", "", <<>>, NoFilename)}

VARIABLES
    \* --- Server, data-channel receive path
    arrived,            \* frames passed to on_message, in arrival order
    ready,              \* handler tasks created and not yet run (indices of arrived)
    handled,            \* indices of arrived whose handler task has run, in run order
    raised,             \* indices of arrived whose handler task ended with an exception
    file_buffer,        \* self.file_buffer
    receiving_file,     \* self.receiving_file
    received_file_path, \* self.received_file_path
    files,              \* the file system: path -> content, or NoFile
    llm_calls,          \* arguments of process_text_with_llm / process_file_with_llm
    data_channel,       \* self.data_channel
    sent,               \* frames the Server emitted on the data channel
    \* --- Server, connection handling and run_server
    iceConnectionState, \* self.pc.iceConnectionState
    connected,          \* self.connected (the flag of the asyncio.Event)
    pc_closed,          \* self.pc.close() has been called
    signaling,          \* the signaling channel: "new", "open" or "closed"
    descriptions,       \* the descriptions committed to the peer connection
    answer_sent,        \* the answer was sent on the signaling channel
    ice_task,           \* the exchange_ice_candidates task (the inbound loop): "none",
                        \* "running", "done", "raised" or "cancelled"
    media_recorder,     \* self.media_recorder: None, "created", "recording", "stopped"
    run_pc,             \* where run_server / start / stop stands
    start_result,       \* how start() ended: "pending", "returned", "raised", "cancelled"
    ice_handlers,       \* on_ice_connection_state_change tasks not yet run (state at emission)
    closing,            \* handlers suspended in "await self.pc.close()"
    ice_events,         \* number of state changes the engine reported
    request,            \* the first message received on the signaling channel
    ice_sender,         \* the send_ice_candidates task (the outbound loop), as ice_task
    last_message,       \* what the inbound loop's last signaling.receive() returned
    last_candidate,     \* what the outbound loop's last getRemoteCandidate() returned
    stop_attempted,     \* the resources stop() has called the release of
    classified,         \* <<fields a parsed signaling message carries, what it was read as>>
    \* --- Client
    https_connection,   \* self.https_connection: None or "open"
    webrtc_connection,  \* self.webrtc_connection: None or "open"
    is_webrtc_enabled,  \* self.is_webrtc_enabled
    client_log,         \* the calls made on the Client and what each did
    transport_used,     \* the connection the last send_* / receive_* call used
    call_result,        \* how the last call on the Client ended
    \* --- Client, receiving on the realtime connection
    ws_sent,            \* the messages the server sent on the WebSocket, in order
    ws_read,            \* how many of them recv() has returned
    rx_want,            \* the type the receive_* call in progress waits for, or None
    rx_from,            \* ws_read when the call in progress began
    rx_returned,        \* per finished receive_* call: the type it waited for and the
                        \* message whose payload it returned (0: it returned None)
    \* --- Session, send path
    lock,               \* self.lock: Unlocked, or the send call that holds it
    lock_waiters,       \* the send calls suspended in lock.acquire(), oldest first
    send_pc,            \* where each send call stands
    send_left,          \* chunks each send_file call has still to send
    sent_by             \* the send call behind each frame of sent

recvVars == <<arrived, ready, handled, raised, file_buffer, receiving_file,
              received_file_path, files, llm_calls, data_channel, sent>>

connVars == <<iceConnectionState, connected, pc_closed, signaling, descriptions,
              answer_sent, ice_task, media_recorder, run_pc, start_result,
              ice_handlers, closing, ice_events, request, ice_sender, last_message,
              last_candidate, stop_attempted, classified>>

clientVars == <<https_connection, webrtc_connection, is_webrtc_enabled, client_log,
                transport_used, call_result>>

sendVars == <<lock, lock_waiters, send_pc, send_left, sent_by>>

rxVars == <<ws_sent, ws_read, rx_want, rx_from, rx_returned>>

vars == <<recvVars, connVars, clientVars, sendVars, rxVars>>

\* ------------------------------------------------------------ Server: receive path

\* asyncio runs the tasks made by create_task in creation order: the task to
\* run next is the oldest one of the ready queue.
\* (a scheduler that would run the newest task first)
ScheduledNewestFirst(q) == Len(q)
Scheduled(q) == 1

\* data.get("filename", "server_received_file.bin")
ResolvePath(frame) ==
    IF frame.filename = NoFilename THEN DefaultPath ELSE frame.filename

\* process_text_with_llm / process_file_with_llm: the reply is the argument
\* behind a fixed prefix.
process_text_with_llm(text) == <<"LLM response to: ", text>>
process_file_with_llm(path) == <<"LLM processed file: ", path>>

\* send_text: under the lock, one {"type": "text", "data": message} frame when
\* the data channel is set and open, otherwise only a warning.
\* if self.data_channel and self.data_channel.readyState == 'open':
\* (a check that would only look at whether a channel was ever stored)
ChannelStored(channel) == channel # None
ChannelOpen(channel) == channel # None /\ channel = "open"

send_text(message) ==
    IF ChannelOpen(data_channel)
    THEN Append(sent, [type |-> "text", data |-> message])
    ELSE sent

\* self.file_buffer.extend(message)
\* (a handler that would put the chunk in front of the buffer)
ExtendInFront(buffer, message) == message \o buffer
Extend(buffer, message) == buffer \o message

\* if self.receiving_file: (binary branch)
\* (a handler that would buffer chunks whatever the mode)
AcceptsChunkAlways(active) == TRUE
AcceptsChunk(active) == active

\* self.file_buffer = bytearray() (file_start branch)
\* (a file_start that would keep the bytes buffered so far)
StaleBuffer == file_buffer
FreshBuffer == <<>>

\* self.receiving_file = False (file_end branch, after the write)
\* (a file_end that would leave the reception active)
ActiveLeftAsIs == receiving_file
ActiveAfterFlush == FALSE

RemoveAt(q, i) == SubSeq(q, 1, i - 1) \o SubSeq(q, i + 1, Len(q))

InitRecv ==
    /\ arrived = <<>>
    /\ ready = <<>>
    /\ handled = <<>>
    /\ raised = {}
    /\ file_buffer = <<>>
    /\ receiving_file = FALSE
    /\ received_file_path = DefaultPath
    /\ files = [p \in Paths |-> NoFile]
    /\ llm_calls = <<>>
    /\ data_channel = None
    /\ sent = <<>>

\* on_message: every inbound frame gets its own handler task.
OnMessage(frame) ==
    /\ Len(arrived) < MaxFrames
    /\ arrived' = Append(arrived, frame)
    /\ ready' = Append(ready, Len(arrived) + 1)
    /\ UNCHANGED <<handled, raised, file_buffer, receiving_file,
                   received_file_path, files, llm_calls, data_channel, sent>>
    /\ UNCHANGED <<connVars, clientVars, sendVars, rxVars>>

\* The task the event loop runs next, and its frame.
NextTask == ready[Scheduled(ready)]
NextFrame == arrived[NextTask]

\* Each frame has a task of its own: a task that ends, with an exception or
\* without, leaves the other tasks in the queue.
\* (a handler whose exception would discard the tasks that wait)
TasksLeftUnlessRaised(q, ok) == IF ok THEN RemoveAt(q, Scheduled(q)) ELSE <<>>
TasksLeft(q, ok) == RemoveAt(q, Scheduled(q))

\* Bookkeeping of a handler task that ran to its end.
TaskRan(ok) ==
    /\ ready' = TasksLeft(ready, ok)
    /\ handled' = Append(handled, NextTask)
    /\ raised' = IF ok THEN raised ELSE raised \cup {NextTask}
    /\ UNCHANGED <<arrived, data_channel>>
    /\ UNCHANGED <<connVars, clientVars, sendVars, rxVars>>

\* {"type": "text"}: hand the text to the LLM and send the reply back.
HandleText ==
    /\ ready # <<>>
    /\ NextFrame.kind = "text"
    /\ llm_calls' = Append(llm_calls, <<"text", NextFrame.text>>)
    /\ sent' = send_text(process_text_with_llm(NextFrame.text))
    /\ TaskRan(TRUE)
    /\ UNCHANGED <<file_buffer, receiving_file, received_file_path, files>>

\* {"type": "file_start"}: reset the reception context.
HandleFileStart ==
    /\ ready # <<>>
    /\ NextFrame.kind = "file_start"
    /\ received_file_path' = ResolvePath(NextFrame)
    /\ file_buffer' = FreshBuffer
    /\ receiving_file' = TRUE
    /\ TaskRan(TRUE)
    /\ UNCHANGED <<files, llm_calls, sent>>

\* {"type": "file_end"}: open(path, 'wb') and f.write(buffer). The write can
\* succeed, open can fail (the file is untouched), or the write can fail after
\* open truncated the file (a proper prefix of the buffer is left in it). A
\* failure leaves the handler before receiving_file is cleared.
HandleFileEnd ==
    /\ ready # <<>>
    /\ NextFrame.kind = "file_end"
    /\ \/ /\ files' = [files EXCEPT ![received_file_path] = file_buffer]
          /\ receiving_file' = ActiveAfterFlush
          /\ llm_calls' = Append(llm_calls, <<"file", received_file_path>>)
          /\ sent' = send_text(process_file_with_llm(received_file_path))
          /\ TaskRan(TRUE)
       \/ /\ UNCHANGED <<files, receiving_file, llm_calls, sent>>
          /\ TaskRan(FALSE)
       \/ /\ \E n \in 0..(Len(file_buffer) - 1) :
                files' = [files EXCEPT ![received_file_path] = SubSeq(file_buffer, 1, n)]
          /\ UNCHANGED <<receiving_file, llm_calls, sent>>
          /\ TaskRan(FALSE)
    /\ UNCHANGED <<file_buffer, received_file_path>>

\* A binary frame: appended while a reception is active, else dropped with a
\* warning.
HandleBinary ==
    /\ ready # <<>>
    /\ NextFrame.kind = "binary"
    /\ file_buffer' = IF AcceptsChunk(receiving_file)
                      THEN Extend(file_buffer, NextFrame.bytes)
                      ELSE file_buffer
    /\ TaskRan(TRUE)
    /\ UNCHANGED <<receiving_file, received_file_path, files, llm_calls, sent>>

\* A JSON object whose "type" is none of the three: no branch is taken.
HandleUnknown ==
    /\ ready # <<>>
    /\ NextFrame.kind = "unknown"
    /\ TaskRan(TRUE)
    /\ UNCHANGED <<file_buffer, receiving_file, received_file_path, files,
                   llm_calls, sent>>

\* A text frame that is not JSON: json.loads raises inside the task.
HandleMalformed ==
    /\ ready # <<>>
    /\ NextFrame.kind = "malformed"
    /\ TaskRan(FALSE)
    /\ UNCHANGED <<file_buffer, receiving_file, received_file_path, files,
                   llm_calls, sent>>

NextRecv ==
    \/ \E frame \in Frames : OnMessage(frame)
    \/ HandleText
    \/ HandleFileStart
    \/ HandleFileEnd
    \/ HandleBinary
    \/ HandleUnknown
    \/ HandleMalformed

\* ------------------------------------------------------------ Server: connection, start, stop

\* The state changes the transport engine can report while it is open.
IceTransitions ==
    {<<"new", "checking">>, <<"checking", "connected">>, <<"checking", "failed">>,
     <<"connected", "disconnected">>, <<"connected", "failed">>,
     <<"disconnected", "connected">>, <<"disconnected", "failed">>}

\* What the first signaling message can be: an offer {sdp, type}, an ICE
\* candidate {candidate, sdpMid, sdpMLineIndex}, text that is not JSON, or the
\* null of a closed channel.
SignalingMessages == {"offer", "candidate", "not_json", "closed"}

\* on_ice_connection_state_change takes no argument: it reads
\* self.pc.iceConnectionState when the task runs, not the state at emission.
\* (a handler that would act on the state the event was emitted for)
StateAtEmission(emitted, current) == emitted
ObservedState(emitted, current) == current

\* No message, or no candidate, has been received yet.
NotReceived == "<not received>"

\* exchange_signaling reads offer['sdp'] and offer['type'] of the parsed
\* message: only an offer has both.
\* (a handshake that would take any message as the offer)
AnyMessage(message) == TRUE
IsOffer(message) == message = "offer"

\* setLocalDescription(answer) commits the answer.
\* (a handshake that would send the answer without committing it)
LocalNotCommitted(committed) == committed
LocalCommitted(committed) == committed \cup {"local"}

\* send_ice_candidates: if candidate is None: break
\* (a loop that would stop after any candidate)
AnyCandidateEnds(candidate) == TRUE
NoMoreCandidates(candidate) == candidate = None

\* exchange_ice_candidates: if message is None: break
InboundEnds(message) == message = "closed"

\* exchange_ice_candidates: json.loads(message), then data['sdpMid'],
\* data['sdpMLineIndex'], data['candidate']: only a candidate has the three.
\* (a loop that would take any message as a candidate)
ParsesAnything(message) == TRUE
Parses(message) == message = "candidate"

\* The messages json.loads accepts: the code then reads fields of them.
JsonMessages == {"offer", "candidate"}

\* The code reads a parsed message as what its place in the exchange makes
\* it: the first message as an offer, every later one as a candidate.
ReadAs(message, place) ==
    IF message \in JsonMessages THEN {<<message, place>>} ELSE {}

\* asyncio.run has not yet closed the event loop: callbacks and tasks run.
LoopRunning == run_pc \notin {"exited", "exited_raised"}

InitConn ==
    /\ iceConnectionState = "new"
    /\ connected = FALSE
    /\ pc_closed = FALSE
    /\ signaling = "new"
    /\ descriptions = {}
    /\ answer_sent = FALSE
    /\ ice_task = "none"
    /\ media_recorder = None
    /\ run_pc = "start"
    /\ start_result = "pending"
    /\ ice_handlers = <<>>
    /\ closing = 0
    /\ ice_events = 0
    /\ request = NotReceived
    /\ ice_sender = "none"
    /\ last_message = NotReceived
    /\ last_candidate = NotReceived
    /\ stop_attempted = {}
    /\ classified = {}

\* An await of start() raises: run_server logs it and goes on to stop().
StartRaises ==
    /\ run_pc' = "stop_recorder"
    /\ start_result' = "raised"

\* exchange_signaling: await self.signaling.connect()
SignalingConnect ==
    /\ run_pc = "start"
    /\ \/ /\ signaling' = "open"
          /\ run_pc' = "recv_offer"
          /\ UNCHANGED start_result
       \/ /\ StartRaises
          /\ UNCHANGED signaling
    /\ UNCHANGED <<iceConnectionState, connected, pc_closed, descriptions, answer_sent,
                   ice_task, media_recorder, ice_handlers, closing, ice_events>>
    /\ UNCHANGED <<request, ice_sender, last_message, last_candidate, stop_attempted>>
    /\ UNCHANGED classified
    /\ UNCHANGED <<recvVars, clientVars, sendVars, rxVars>>

\* exchange_signaling: receive, json.loads, offer['sdp'] / offer['type'],
\* setRemoteDescription. Anything but an offer raises.
ReceiveOffer(message) ==
    /\ run_pc = "recv_offer"
    /\ request' = message
    /\ classified' = classified \cup ReadAs(message, "offer")
    /\ IF IsOffer(message)
       THEN /\ descriptions' = descriptions \cup {"remote"}
            /\ run_pc' = "create_answer"
            /\ UNCHANGED start_result
       ELSE /\ StartRaises
            /\ UNCHANGED descriptions
    /\ UNCHANGED <<iceConnectionState, connected, pc_closed, signaling, answer_sent,
                   ice_task, media_recorder, ice_handlers, closing, ice_events>>
    /\ UNCHANGED <<ice_sender, last_message, last_candidate, stop_attempted>>
    /\ UNCHANGED <<recvVars, clientVars, sendVars, rxVars>>

\* exchange_signaling: add_local_tracks, createAnswer, setLocalDescription.
CreateAnswer ==
    /\ run_pc = "create_answer"
    /\ \/ /\ descriptions' = LocalCommitted(descriptions)
          /\ run_pc' = "send_answer"
          /\ UNCHANGED start_result
       \/ /\ StartRaises
          /\ UNCHANGED descriptions
    /\ UNCHANGED <<iceConnectionState, connected, pc_closed, signaling, answer_sent,
                   ice_task, media_recorder, ice_handlers, closing, ice_events>>
    /\ UNCHANGED <<request, ice_sender, last_message, last_candidate, stop_attempted>>
    /\ UNCHANGED classified
    /\ UNCHANGED <<recvVars, clientVars, sendVars, rxVars>>

\* exchange_signaling: send the answer, then create the ICE exchange task.
SendAnswer ==
    /\ run_pc = "send_answer"
    /\ \/ /\ answer_sent' = TRUE
          /\ ice_task' = "running"
          /\ run_pc' = "wait_connected"
          /\ UNCHANGED start_result
       \/ /\ StartRaises
          /\ UNCHANGED <<answer_sent, ice_task>>
    /\ UNCHANGED <<iceConnectionState, connected, pc_closed, signaling, descriptions,
                   media_recorder, ice_handlers, closing, ice_events>>
    /\ UNCHANGED <<request, ice_sender, last_message, last_candidate, stop_attempted>>
    /\ UNCHANGED classified
    /\ UNCHANGED <<recvVars, clientVars, sendVars, rxVars>>

\* start: await self.connected.wait(). It returns at once when the flag is
\* set and suspends start() otherwise.
WaitConnected ==
    /\ run_pc = "wait_connected"
    /\ run_pc' = IF connected THEN "setup_media" ELSE "suspended"
    /\ UNCHANGED <<iceConnectionState, connected, pc_closed, signaling, descriptions,
                   answer_sent, ice_task, media_recorder, start_result, ice_handlers,
                   closing, ice_events>>
    /\ UNCHANGED <<request, ice_sender, last_message, last_candidate, stop_attempted>>
    /\ UNCHANGED classified
    /\ UNCHANGED <<recvVars, clientVars, sendVars, rxVars>>

\* start: await self.setup_media(), which starts the recorder if there is
\* one; start() then returns and run_server sleeps in its loop.
SetupMedia ==
    /\ run_pc = "setup_media"
    /\ \/ /\ media_recorder' = IF media_recorder # None THEN "recording" ELSE None
          /\ run_pc' = "serving"
          /\ start_result' = "returned"
       \/ /\ media_recorder # None
          /\ StartRaises
          /\ UNCHANGED media_recorder
    /\ UNCHANGED <<iceConnectionState, connected, pc_closed, signaling, descriptions,
                   answer_sent, ice_task, ice_handlers, closing, ice_events>>
    /\ UNCHANGED <<request, ice_sender, last_message, last_candidate, stop_attempted>>
    /\ UNCHANGED classified
    /\ UNCHANGED <<recvVars, clientVars, sendVars, rxVars>>

\* The user interrupts run_server: the pending await is cancelled and the
\* finally clause runs stop().
Interrupt ==
    /\ run_pc \in {"recv_offer", "create_answer", "send_answer", "wait_connected",
                   "suspended", "setup_media", "serving"}
    /\ start_result' = IF start_result = "pending" THEN "cancelled" ELSE start_result
    /\ run_pc' = "stop_recorder"
    /\ UNCHANGED <<iceConnectionState, connected, pc_closed, signaling, descriptions,
                   answer_sent, ice_task, media_recorder, ice_handlers, closing,
                   ice_events>>
    /\ UNCHANGED <<request, ice_sender, last_message, last_candidate, stop_attempted>>
    /\ UNCHANGED classified
    /\ UNCHANGED <<recvVars, clientVars, sendVars, rxVars>>

\* on_track: the first audio or video track creates the recorder.
OnTrack ==
    /\ LoopRunning
    /\ "remote" \in descriptions
    /\ ~pc_closed
    /\ media_recorder = None
    /\ media_recorder' = "created"
    /\ UNCHANGED <<iceConnectionState, connected, pc_closed, signaling, descriptions,
                   answer_sent, ice_task, run_pc, start_result, ice_handlers, closing,
                   ice_events>>
    /\ UNCHANGED <<request, ice_sender, last_message, last_candidate, stop_attempted>>
    /\ UNCHANGED classified
    /\ UNCHANGED <<recvVars, clientVars, sendVars, rxVars>>

\* The transport engine reports a state change; the event emitter makes a
\* task of on_ice_connection_state_change.
EngineReport(state) ==
    /\ LoopRunning
    /\ ~pc_closed
    /\ {"remote", "local"} \subseteq descriptions
    /\ ice_events < MaxIceEvents
    /\ <<iceConnectionState, state>> \in IceTransitions
    /\ iceConnectionState' = state
    /\ ice_handlers' = Append(ice_handlers, state)
    /\ ice_events' = ice_events + 1
    /\ UNCHANGED <<connected, pc_closed, signaling, descriptions, answer_sent, ice_task,
                   media_recorder, run_pc, start_result, closing>>
    /\ UNCHANGED <<request, ice_sender, last_message, last_candidate, stop_attempted>>
    /\ UNCHANGED classified
    /\ UNCHANGED <<recvVars, clientVars, sendVars, rxVars>>

\* (a close() that would leave the engine as it is)
PcLeftOpen(handlers) ==
    /\ UNCHANGED <<pc_closed, iceConnectionState>>
    /\ ice_handlers' = handlers

\* self.pc.close(): the engine goes to "closed" and says so once.
PcClose(handlers) ==
    /\ pc_closed' = TRUE
    /\ iceConnectionState' = "closed"
    /\ ice_handlers' = IF pc_closed THEN handlers ELSE Append(handlers, "closed")

\* on_ice_connection_state_change up to its first await: on "connected" the
\* event is set, which resumes a start() suspended in wait(); on "failed" the
\* handler calls self.pc.close() and is suspended in it.
RunIceHandler ==
    /\ LoopRunning
    /\ ice_handlers # <<>>
    /\ LET state == ObservedState(Head(ice_handlers), iceConnectionState) IN
       IF state = "connected"
       THEN /\ connected' = TRUE
            /\ run_pc' = IF run_pc = "suspended" /\ ~connected THEN "setup_media" ELSE run_pc
            /\ ice_handlers' = Tail(ice_handlers)
            /\ UNCHANGED <<iceConnectionState, pc_closed, closing>>
       ELSE IF state = "failed"
       THEN /\ PcClose(Tail(ice_handlers))
            /\ closing' = closing + 1
            /\ UNCHANGED <<connected, run_pc>>
       ELSE /\ ice_handlers' = Tail(ice_handlers)
            /\ UNCHANGED <<iceConnectionState, connected, pc_closed, closing, run_pc>>
    /\ UNCHANGED <<signaling, descriptions, answer_sent, ice_task, media_recorder,
                   start_result, ice_events>>
    /\ UNCHANGED <<request, ice_sender, last_message, last_candidate, stop_attempted>>
    /\ UNCHANGED classified
    /\ UNCHANGED <<recvVars, clientVars, sendVars, rxVars>>

\* The "failed" branch after its await: self.connected.clear(), unless close()
\* raised.
FinishFailedHandler ==
    /\ LoopRunning
    /\ closing > 0
    /\ closing' = closing - 1
    /\ \/ connected' = FALSE
       \/ UNCHANGED connected
    /\ UNCHANGED <<iceConnectionState, pc_closed, signaling, descriptions, answer_sent,
                   ice_task, media_recorder, run_pc, start_result, ice_handlers,
                   ice_events>>
    /\ UNCHANGED <<request, ice_sender, last_message, last_candidate, stop_attempted>>
    /\ UNCHANGED classified
    /\ UNCHANGED <<recvVars, clientVars, sendVars, rxVars>>

\* stop: if self.media_recorder: await self.media_recorder.stop(); the media
\* player is never created. An exception leaves stop().
StopRecorder ==
    /\ run_pc = "stop_recorder"
    /\ stop_attempted' = IF media_recorder # None
                         THEN stop_attempted \cup {"recorder"} ELSE stop_attempted
    /\ \/ /\ media_recorder' = IF media_recorder # None THEN "stopped" ELSE None
          /\ run_pc' = "stop_pc"
       \/ /\ media_recorder # None
          /\ run_pc' = "stop_raised"
          /\ UNCHANGED media_recorder
    /\ UNCHANGED <<iceConnectionState, connected, pc_closed, signaling, descriptions,
                   answer_sent, ice_task, start_result, ice_handlers, closing,
                   ice_events>>
    /\ UNCHANGED <<request, ice_sender, last_message, last_candidate>>
    /\ UNCHANGED classified
    /\ UNCHANGED <<recvVars, clientVars, sendVars, rxVars>>

\* stop: await self.pc.close()
StopPc ==
    /\ run_pc = "stop_pc"
    /\ stop_attempted' = stop_attempted \cup {"pc"}
    /\ \/ /\ PcClose(ice_handlers)
          /\ run_pc' = "stop_signaling"
       \/ /\ run_pc' = "stop_raised"
          /\ UNCHANGED <<iceConnectionState, pc_closed, ice_handlers>>
    /\ UNCHANGED <<connected, signaling, descriptions, answer_sent, ice_task,
                   media_recorder, start_result, closing, ice_events>>
    /\ UNCHANGED <<request, ice_sender, last_message, last_candidate>>
    /\ UNCHANGED classified
    /\ UNCHANGED <<recvVars, clientVars, sendVars, rxVars>>

\* stop: await self.signaling.close()
StopSignaling ==
    /\ run_pc = "stop_signaling"
    /\ stop_attempted' = stop_attempted \cup {"signaling"}
    /\ \/ /\ signaling' = "closed"
          /\ run_pc' = "stopped"
       \/ /\ run_pc' = "stop_raised"
          /\ UNCHANGED signaling
    /\ UNCHANGED <<iceConnectionState, connected, pc_closed, descriptions, answer_sent,
                   ice_task, media_recorder, start_result, ice_handlers, closing,
                   ice_events>>
    /\ UNCHANGED <<request, ice_sender, last_message, last_candidate>>
    /\ UNCHANGED classified
    /\ UNCHANGED <<recvVars, clientVars, sendVars, rxVars>>

\* exchange_ice_candidates up to its first await: it defines
\* send_ice_candidates and makes a task of it, then enters the inbound loop.
LaunchSender ==
    /\ ice_task = "running"
    /\ ice_sender = "none"
    /\ ice_sender' = "running"
    /\ UNCHANGED <<iceConnectionState, connected, pc_closed, signaling, descriptions,
                   answer_sent, ice_task, media_recorder, run_pc, start_result,
                   ice_handlers, closing, ice_events>>
    /\ UNCHANGED <<request, last_message, last_candidate, stop_attempted>>
    /\ UNCHANGED classified
    /\ UNCHANGED <<recvVars, clientVars, sendVars, rxVars>>

\* One turn of the inbound loop: receive a message; None ends the loop;
\* otherwise json.loads, the three fields, addIceCandidate, any of which
\* may raise and end the task. A closed channel gives None.
InboundReceive(message) ==
    /\ ice_task = "running"
    /\ ice_sender # "none"
    /\ signaling = "closed" => message = "closed"
    /\ last_message' = message
    /\ classified' = classified \cup ReadAs(message, "candidate")
    /\ IF InboundEnds(message)
       THEN ice_task' = "done"
       ELSE IF Parses(message)
       THEN ice_task' \in {"running", "raised"}
       ELSE ice_task' = "raised"
    /\ UNCHANGED <<iceConnectionState, connected, pc_closed, signaling, descriptions,
                   answer_sent, media_recorder, run_pc, start_result, ice_handlers,
                   closing, ice_events>>
    /\ UNCHANGED <<request, ice_sender, last_candidate, stop_attempted>>
    /\ UNCHANGED <<recvVars, clientVars, sendVars, rxVars>>

\* One turn of the outbound loop: ask the engine for a candidate; None ends
\* the loop; otherwise send it on the signaling channel, which raises when
\* the channel is closed and may raise otherwise.
PullCandidate(candidate) ==
    /\ ice_sender = "running"
    /\ last_candidate' = candidate
    /\ IF NoMoreCandidates(candidate)
       THEN ice_sender' = "done"
       ELSE IF signaling = "open"
       THEN ice_sender' \in {"running", "raised"}
       ELSE ice_sender' = "raised"
    /\ UNCHANGED <<iceConnectionState, connected, pc_closed, signaling, descriptions,
                   answer_sent, ice_task, media_recorder, run_pc, start_result,
                   ice_handlers, closing, ice_events>>
    /\ UNCHANGED <<request, last_message, stop_attempted>>
    /\ UNCHANGED classified
    /\ UNCHANGED <<recvVars, clientVars, sendVars, rxVars>>

\* The outbound loop's request to the engine raises.
PullRaises ==
    /\ ice_sender = "running"
    /\ ice_sender' = "raised"
    /\ UNCHANGED <<iceConnectionState, connected, pc_closed, signaling, descriptions,
                   answer_sent, ice_task, media_recorder, run_pc, start_result,
                   ice_handlers, closing, ice_events>>
    /\ UNCHANGED <<request, last_message, last_candidate, stop_attempted>>
    /\ UNCHANGED classified
    /\ UNCHANGED <<recvVars, clientVars, sendVars, rxVars>>

Cancelled(task) == IF task = "running" THEN "cancelled" ELSE task

\* asyncio.run(run_server()): when run_server has ended, by return or by the
\* exception of stop(), the runner cancels every task that is left and
\* closes the loop.
LoopShutdown ==
    /\ run_pc \in {"stopped", "stop_raised"}
    /\ run_pc' = IF run_pc = "stopped" THEN "exited" ELSE "exited_raised"
    /\ ice_task' = Cancelled(ice_task)
    /\ ice_sender' = Cancelled(ice_sender)
    /\ ice_handlers' = <<>>
    /\ closing' = 0
    /\ UNCHANGED <<iceConnectionState, connected, pc_closed, signaling, descriptions,
                   answer_sent, media_recorder, start_result, ice_events>>
    /\ UNCHANGED <<request, last_message, last_candidate, stop_attempted>>
    /\ UNCHANGED classified
    /\ UNCHANGED <<recvVars, clientVars, sendVars, rxVars>>

\* What the event loop does on its own: the steps of run_server and the
\* handler tasks. The engine's reports, the tracks and the user's interrupt
\* come from outside.
LoopStep ==
    \/ SignalingConnect
    \/ \E message \in SignalingMessages : ReceiveOffer(message)
    \/ CreateAnswer
    \/ SendAnswer
    \/ WaitConnected
    \/ SetupMedia
    \/ RunIceHandler
    \/ FinishFailedHandler
    \/ StopRecorder
    \/ StopPc
    \/ StopSignaling
    \/ LaunchSender
    \/ LoopShutdown

NextConn ==
    \/ LoopStep
    \/ \E message \in SignalingMessages : InboundReceive(message)
    \/ \E candidate \in {"candidate", None} : PullCandidate(candidate)
    \/ PullRaises
    \/ Interrupt
    \/ OnTrack
    \/ \E state \in {"checking", "connected", "disconnected", "failed"} : EngineReport(state)

\* ------------------------------------------------------------ Client

\* How a call in which an exception occurred ends: connect_to_server logs
\* and raises again; the receive_* methods log and return None; the send_*
\* methods and toggle_protocol log and return.
\* (a Client whose methods would all let the exception through)
FailureRaised(kind) == "raised"
ResultOfFailure(kind) ==
    IF kind = "connect" THEN "raised"
    ELSE IF kind = "receive" THEN None
    ELSE "returned"

\* toggle_protocol, when closing the WebSocket connection raised: the
\* assignments that follow the close are not reached.
\* (a toggle that would turn the flag off although the close failed)
FlagClearedAnyway(flag) == FALSE
FlagAfterFailedClose(flag) == flag

InitClient ==
    /\ https_connection = None
    /\ webrtc_connection = None
    /\ is_webrtc_enabled = FALSE
    /\ client_log = <<>>
    /\ transport_used = "none"
    /\ call_result = "no call"

\* connect_to_server: HTTPS when there is no HTTPS connection and the flag is
\* off; else, when the flag is off, the WebSocket connection and the flag;
\* else nothing. An exception is logged and raised again, no field assigned.
ConnectToServer ==
    /\ Len(client_log) < MaxOps
    /\ IF https_connection = None /\ ~is_webrtc_enabled
       THEN \/ /\ https_connection' = "open"
               /\ client_log' = Append(client_log, "connect")
               /\ UNCHANGED <<webrtc_connection, is_webrtc_enabled>>
            \/ /\ client_log' = Append(client_log, "connect_raised")
               /\ UNCHANGED <<https_connection, webrtc_connection, is_webrtc_enabled>>
       ELSE IF ~is_webrtc_enabled
       THEN \/ /\ webrtc_connection' = "open"
               /\ is_webrtc_enabled' = TRUE
               /\ client_log' = Append(client_log, "connect")
               /\ UNCHANGED https_connection
            \/ /\ client_log' = Append(client_log, "connect_raised")
               /\ UNCHANGED <<https_connection, webrtc_connection, is_webrtc_enabled>>
       ELSE /\ client_log' = Append(client_log, "connect")
            /\ UNCHANGED <<https_connection, webrtc_connection, is_webrtc_enabled>>
    /\ call_result' = IF client_log'[Len(client_log')] = "connect_raised"
                      THEN ResultOfFailure("connect") ELSE "returned"
    /\ UNCHANGED transport_used
    /\ UNCHANGED <<recvVars, connVars, sendVars, rxVars>>

\* toggle_protocol: with an HTTPS connection, close it, clear it and turn the
\* flag on; otherwise close and clear the WebSocket connection if there is
\* one, and turn the flag off. An exception of close() is logged and ends the
\* call before any field is assigned.
ToggleProtocol ==
    /\ Len(client_log) < MaxOps
    /\ IF https_connection # None
       THEN \/ /\ https_connection' = None
               /\ is_webrtc_enabled' = TRUE
               /\ client_log' = Append(client_log, "toggle_from_https")
               /\ UNCHANGED webrtc_connection
            \/ /\ client_log' = Append(client_log, "toggle_failed")
               /\ UNCHANGED <<https_connection, webrtc_connection, is_webrtc_enabled>>
       ELSE IF webrtc_connection # None
       THEN \/ /\ webrtc_connection' = None
               /\ is_webrtc_enabled' = FALSE
               /\ client_log' = Append(client_log, "toggle_from_webrtc")
               /\ UNCHANGED https_connection
            \/ /\ client_log' = Append(client_log, "toggle_failed")
               /\ is_webrtc_enabled' = FlagAfterFailedClose(is_webrtc_enabled)
               /\ UNCHANGED <<https_connection, webrtc_connection>>
       ELSE /\ is_webrtc_enabled' = FALSE
            /\ client_log' = Append(client_log, "toggle_idle")
            /\ UNCHANGED <<https_connection, webrtc_connection>>
    /\ call_result' = IF client_log'[Len(client_log')] = "toggle_failed"
                      THEN ResultOfFailure("toggle") ELSE "returned"
    /\ UNCHANGED transport_used
    /\ UNCHANGED <<recvVars, connVars, sendVars, rxVars>>

\* send_* and receive_*: if self.https_connection: ... elif
\* self.webrtc_connection: ...; the flag is not read.
TransportOf(https, webrtc) ==
    IF https # None THEN "https" ELSE IF webrtc # None THEN "webrtc" ELSE "none"

\* What a send_* or receive_* call that meets no exception gives back: a
\* receive_* with no connection at all falls through both branches.
ResultOf(kind, transport) ==
    IF kind = "receive" /\ transport # "none" THEN "value"
    ELSE IF kind = "receive" THEN None
    ELSE "returned"

\* A send_* or receive_* call. An exception, of the transport or of the
\* encoding before the transport is chosen, is logged inside the call; no
\* field is assigned.
Operation(kind) ==
    /\ Len(client_log) < MaxOps
    /\ LET transport == TransportOf(https_connection, webrtc_connection) IN
       \/ /\ transport_used' = transport
          /\ client_log' = Append(client_log, kind)
          /\ call_result' = ResultOf(kind, transport)
       \/ /\ transport_used' \in {"none", transport}
          /\ client_log' = Append(client_log, IF kind = "send" THEN "send_failed"
                                                               ELSE "receive_failed")
          /\ call_result' = ResultOfFailure(kind)
    /\ UNCHANGED <<https_connection, webrtc_connection, is_webrtc_enabled>>
    /\ UNCHANGED <<recvVars, connVars, sendVars, rxVars>>

NextClient ==
    \/ ConnectToServer
    \/ ToggleProtocol
    \/ \E kind \in {"send", "receive"} : Operation(kind)

\* ------------------------------------------------------------ Client: receiving on the realtime connection

\* The types of the realtime envelope {type, data}; two of the five stand
\* for all, the receive_* methods differ only in the type they wait for.
MessageTypes == {"text", "audio"}

\* A message the server sends: a JSON envelope of a type, whose payload can
\* be decoded or not (a text payload is returned as it is), or a frame that is
\* not a JSON object.
Message(type, ok) == [type |-> type, ok |-> ok]
Messages ==
    {Message(t, TRUE) : t \in MessageTypes}
    \cup {Message("audio", FALSE)}
    \cup {Message("not_json", FALSE)}

\* receive_X: if data.get("type") == X
\* (a receive_X that would return the first message whatever its type)
MatchesAny(type, want) == type # "not_json"
Matches(type, want) == type = want

InitRx ==
    /\ ws_sent = <<>>
    /\ ws_read = 0
    /\ rx_want = None
    /\ rx_from = 0
    /\ rx_returned = <<>>

\* The server sends a message; the WebSocket connection queues it.
ServerSends(message) ==
    /\ Len(ws_sent) < MaxMessages
    /\ ws_sent' = Append(ws_sent, message)
    /\ UNCHANGED <<ws_read, rx_want, rx_from, rx_returned>>
    /\ UNCHANGED <<recvVars, connVars, clientVars, sendVars>>

\* A receive_X call that takes the realtime branch enters its loop.
CallReceive(want) ==
    /\ rx_want = None
    /\ Len(rx_returned) < MaxReceives
    /\ TransportOf(https_connection, webrtc_connection) = "webrtc"
    /\ rx_want' = want
    /\ rx_from' = ws_read
    /\ UNCHANGED <<ws_sent, ws_read, rx_returned>>
    /\ UNCHANGED <<recvVars, connVars, clientVars, sendVars>>

\* The call ends and gives back the payload of message `got`, or None (0).
Returns(got) ==
    /\ rx_returned' = Append(rx_returned, [want |-> rx_want, got |-> got])
    /\ rx_want' = None

\* One turn of the loop: recv() returns the next message; json.loads; a
\* message of the type waited for is decoded and returned, any other JSON
\* envelope is dropped and the loop goes on; an exception (not JSON, payload
\* that cannot be decoded) is logged and the call returns None.
ReceiveTurn ==
    /\ rx_want # None
    /\ ws_read < Len(ws_sent)
    /\ ws_read' = ws_read + 1
    /\ LET message == ws_sent[ws_read + 1] IN
       IF message.type = "not_json"
       THEN Returns(0)
       ELSE IF Matches(message.type, rx_want)
       THEN Returns(IF message.ok THEN ws_read + 1 ELSE 0)
       ELSE UNCHANGED <<rx_want, rx_returned>>
    /\ UNCHANGED <<ws_sent, rx_from>>
    /\ UNCHANGED <<recvVars, connVars, clientVars, sendVars>>

\* recv() raises (the connection was closed): the call returns None.
RecvRaises ==
    /\ rx_want # None
    /\ Returns(0)
    /\ UNCHANGED <<ws_sent, ws_read, rx_from>>
    /\ UNCHANGED <<recvVars, connVars, clientVars, sendVars>>

NextReceive ==
    \/ \E message \in Messages : ServerSends(message)
    \/ \E want \in MessageTypes : CallReceive(want)
    \/ ReceiveTurn
    \/ RecvRaises

\* ------------------------------------------------------------ Session: send path

Senders == 1..MaxSenders
\* self.lock = asyncio.Lock(): the lock when nobody holds it.
Unlocked == 0

InitSend ==
    /\ lock = Unlocked
    /\ lock_waiters = <<>>
    /\ send_pc = [s \in Senders |-> "idle"]
    /\ send_left = [s \in Senders |-> 0]
    /\ sent_by = <<>>

\* async with self.lock: acquire() returns at once when the lock is free and
\* nobody waits for it, and suspends the caller otherwise.
\* (a send that would not take the lock)
CanAcquireAlways(holder, waiters) == TRUE
CanAcquire(holder, waiters) == holder = Unlocked /\ waiters = <<>>

\* The lock after its holder released it: the oldest waiter is woken and has
\* it next.
Released(waiters) == IF waiters = <<>> THEN Unlocked ELSE Head(waiters)
StillWaiting(waiters) == IF waiters = <<>> THEN <<>> ELSE Tail(waiters)

\* The offerer creates the data channel before it sends the offer.
CreateDataChannel ==
    /\ data_channel = None
    /\ data_channel' = "open"
    /\ UNCHANGED <<arrived, ready, handled, raised, file_buffer, receiving_file,
                   received_file_path, files, llm_calls, sent>>
    /\ UNCHANGED <<connVars, clientVars, sendVars, rxVars>>

\* The transport fails or is closed: the data channel leaves readyState "open".
ChannelCloses ==
    /\ data_channel = "open"
    /\ data_channel' = "closed"
    /\ UNCHANGED <<arrived, ready, handled, raised, file_buffer, receiving_file,
                   received_file_path, files, llm_calls, sent>>
    /\ UNCHANGED <<connVars, clientVars, sendVars, rxVars>>

SendUnchanged ==
    /\ UNCHANGED <<arrived, ready, handled, raised, file_buffer, receiving_file,
                   received_file_path, files, llm_calls, data_channel>>
    /\ UNCHANGED <<connVars, clientVars, rxVars>>

\* The body of send_text, run by call s with the lock held: it has no await,
\* so the frame (or the warning) and the release are one step.
SendTextBody(s) ==
    /\ sent' = send_text(<<"message", s>>)
    /\ sent_by' = IF ChannelOpen(data_channel) THEN Append(sent_by, s) ELSE sent_by
    /\ send_pc' = [send_pc EXCEPT ![s] = "text_returned"]
    /\ UNCHANGED send_left

\* A call of send_text: it runs its body at once when it gets the lock, and
\* waits for the lock otherwise.
CallSendText(s) ==
    /\ send_pc[s] = "idle"
    /\ IF CanAcquire(lock, lock_waiters)
       THEN /\ SendTextBody(s)
            /\ UNCHANGED <<lock, lock_waiters>>
       ELSE /\ lock_waiters' = Append(lock_waiters, s)
            /\ send_pc' = [send_pc EXCEPT ![s] = "wait_text"]
            /\ UNCHANGED <<lock, sent, sent_by, send_left>>
    /\ SendUnchanged

\* A send_text that waited for the lock has it now.
ResumeSendText(s) ==
    /\ send_pc[s] = "wait_text"
    /\ lock = s
    /\ SendTextBody(s)
    /\ lock' = Released(lock_waiters)
    /\ lock_waiters' = StillWaiting(lock_waiters)
    /\ SendUnchanged

\* send_file with the lock held, up to its first yield: without an open data
\* channel it fails and releases the lock; otherwise it sends file_start and
\* keeps the lock for the chunks.
SendFileBegin(s, chunks, waiters) ==
    IF ChannelOpen(data_channel)
    THEN /\ sent' = Append(sent, [type |-> "file_start", data |-> <<"file", s>>])
         /\ sent_by' = Append(sent_by, s)
         /\ send_pc' = [send_pc EXCEPT ![s] = "chunks"]
         /\ send_left' = [send_left EXCEPT ![s] = chunks]
         /\ lock' = s
         /\ lock_waiters' = waiters
    ELSE /\ send_pc' = [send_pc EXCEPT ![s] = "file_failed"]
         /\ lock' = Released(waiters)
         /\ lock_waiters' = StillWaiting(waiters)
         /\ UNCHANGED <<sent, sent_by, send_left>>

\* A call of send_file for a file of the given number of chunks.
CallSendFile(s, chunks) ==
    /\ send_pc[s] = "idle"
    /\ IF CanAcquire(lock, lock_waiters)
       THEN SendFileBegin(s, chunks, lock_waiters)
       ELSE /\ lock_waiters' = Append(lock_waiters, s)
            /\ send_pc' = [send_pc EXCEPT ![s] = "wait_file"]
            /\ send_left' = [send_left EXCEPT ![s] = chunks]
            /\ UNCHANGED <<lock, sent, sent_by>>
    /\ SendUnchanged

\* A send_file that waited for the lock has it now.
ResumeSendFile(s) ==
    /\ send_pc[s] = "wait_file"
    /\ lock = s
    /\ SendFileBegin(s, send_left[s], lock_waiters)
    /\ SendUnchanged

\* send_file between two yields: the next chunk as one binary frame, or,
\* after the last chunk, file_end and the release of the lock. A send on a
\* channel that is no longer open raises, which releases the lock too.
SendFileStep(s) ==
    /\ send_pc[s] = "chunks"
    /\ IF ~ChannelOpen(data_channel)
       THEN /\ send_pc' = [send_pc EXCEPT ![s] = "file_failed"]
            /\ lock' = Released(lock_waiters)
            /\ lock_waiters' = StillWaiting(lock_waiters)
            /\ UNCHANGED <<sent, sent_by, send_left>>
       ELSE IF send_left[s] > 0
       THEN /\ sent' = Append(sent, [type |-> "binary", data |-> <<"chunk", s>>])
            /\ sent_by' = Append(sent_by, s)
            /\ send_left' = [send_left EXCEPT ![s] = @ - 1]
            /\ UNCHANGED <<send_pc, lock, lock_waiters>>
       ELSE /\ sent' = Append(sent, [type |-> "file_end", data |-> <<"file", s>>])
            /\ sent_by' = Append(sent_by, s)
            /\ send_pc' = [send_pc EXCEPT ![s] = "file_returned"]
            /\ lock' = Released(lock_waiters)
            /\ lock_waiters' = StillWaiting(lock_waiters)
            /\ UNCHANGED send_left
    /\ SendUnchanged

NextSend ==
    \/ CreateDataChannel
    \/ ChannelCloses
    \/ \E s \in Senders : CallSendText(s)
    \/ \E s \in Senders : ResumeSendText(s)
    \/ \E s \in Senders, chunks \in 0..MaxChunks : CallSendFile(s, chunks)
    \/ \E s \in Senders : ResumeSendFile(s)
    \/ \E s \in Senders : SendFileStep(s)

\* ------------------------------------------------------------ properties: receive path

RECURSIVE ConcatBinary(_, _)
\* The payloads of the binary frames among arrived[i..j], concatenated in
\* arrival order.
ConcatBinary(i, j) ==
    IF i > j THEN <<>>
    ELSE (IF arrived[i].kind = "binary" THEN arrived[i].bytes ELSE <<>>)
         \o ConcatBinary(i + 1, j)

KindsBetween(i, j) == {arrived[m].kind : m \in (i + 1)..(j - 1)}

\* This step is the handler task of frame k running to its end.
Handles(k) == handled' = Append(handled, k)
\* ... and it ended without an exception.
Completes(k) == Handles(k) /\ k \notin raised'

\* This step is the handler task of a file_end frame running to its end.
HandlesFileEnd ==
    /\ ready # <<>>
    /\ NextFrame.kind = "file_end"
    /\ Handles(NextTask)

\* C1: for a file_start j, then only binary frames, then a file_end k, the
\* file at the path resolved from j holds, once the handling of k has written
\* it, exactly the concatenation of those binary frames in arrival order.
C1_ReassemblyEqualsConcatenation ==
    [][(ready # <<>> /\ NextFrame.kind = "file_end" /\ Completes(NextTask))
       => LET k == NextTask IN
          \A j \in 1..(k - 1) :
             (/\ arrived[j].kind = "file_start"
              /\ KindsBetween(j, k) \subseteq {"binary"})
             => files'[ResolvePath(arrived[j])] = ConcatBinary(j + 1, k - 1)]_vars

\* A file of two different chunks has been reassembled in arrival order.
C1_Witness ==
    \E j \in DOMAIN arrived :
        /\ j + 3 \in DOMAIN arrived
        /\ arrived[j].kind = "file_start"
        /\ arrived[j + 1] = Frame("binary", "", <<2, 3>>, NoFilename)
        /\ arrived[j + 2] = Frame("binary", "", <<1>>, NoFilename)
        /\ arrived[j + 3].kind = "file_end"
        /\ Len(handled) = j + 3
        /\ (j + 3) \notin raised
        /\ files[ResolvePath(arrived[j])] = <<2, 3, 1>>

\* C2: the handler tasks apply their changes to the reception context one at
\* a time in frame arrival order: the i-th task to run is the task of the
\* i-th frame that arrived.
C2_MutationsInArrivalOrder ==
    \A i \in DOMAIN handled : handled[i] = i

\* Several handler tasks were pending at once, and a file_start, a chunk and a
\* file_end have been applied.
C2_Witness ==
    /\ Len(ready) >= 2
    /\ Len(handled) >= 3
    /\ \E a, b, c \in DOMAIN handled :
          /\ a < b /\ b < c
          /\ arrived[handled[a]].kind = "file_start"
          /\ arrived[handled[b]].kind = "binary"
          /\ arrived[handled[c]].kind = "file_end"

\* C5 (as claimed): every text frame that has been handled was answered by one
\* {type: "text", data: reply} frame on the data channel, and every handled
\* file_end by the file-processing result.
C5_ReplySentBack ==
    \A i \in DOMAIN handled :
        LET f == arrived[handled[i]] IN
        /\ f.kind = "text" =>
              /\ Cardinality({c \in DOMAIN llm_calls :
                                 llm_calls[c] = <<"text", f.text>>}) >= 1
              /\ \E s \in DOMAIN sent :
                    sent[s] = [type |-> "text", data |-> process_text_with_llm(f.text)]
        /\ (f.kind = "file_end" /\ handled[i] \notin raised) =>
              \E s \in DOMAIN sent : sent[s].type = "text"

\* C8: when a second file_start j arrives before a file_end, the file_end k
\* that follows j writes only the binary frames that arrived after j, and
\* writes them at the path of j, touching no other file.
C8_RestartDiscardsPriorBuffer ==
    [][(ready # <<>> /\ NextFrame.kind = "file_end" /\ Completes(NextTask))
       => LET k == NextTask IN
          \A j \in 1..(k - 1), i \in 1..(k - 1) :
             (/\ i < j
              /\ arrived[i].kind = "file_start"
              /\ arrived[j].kind = "file_start"
              /\ "file_end" \notin KindsBetween(i, j)
              /\ KindsBetween(j, k) \cap {"file_start", "file_end"} = {})
             => /\ files'[ResolvePath(arrived[j])] = ConcatBinary(j + 1, k - 1)
                /\ \A p \in Paths :
                      p # ResolvePath(arrived[j]) => files'[p] = files[p]]_vars

\* A chunk was buffered, a second file_start with another path arrived, one
\* chunk followed, and the file_end wrote that chunk alone at the second path.
C8_Witness ==
    /\ Len(arrived) = 5 /\ Len(handled) = 5 /\ 5 \notin raised
    /\ arrived[1] = Frame("file_start", "", <<>>, "f.bin")
    /\ arrived[2] = Frame("binary", "", <<1>>, NoFilename)
    /\ arrived[3] = Frame("file_start", "", <<>>, NoFilename)
    /\ arrived[4] = Frame("binary", "", <<2, 3>>, NoFilename)
    /\ arrived[5].kind = "file_end"
    /\ files[DefaultPath] = <<2, 3>>
    /\ files["f.bin"] = NoFile

\* C9: the handling of a binary frame while receiving_file is false leaves
\* the buffer, the flag, the target path and every file as they were, and
\* ends without an exception.
C9_InactiveChunkDropped ==
    [][(/\ ready # <<>>
        /\ NextFrame.kind = "binary"
        /\ ~receiving_file
        /\ Handles(NextTask))
       => /\ file_buffer' = file_buffer
          /\ receiving_file' = receiving_file
          /\ received_file_path' = received_file_path
          /\ files' = files
          /\ NextTask \notin raised']_vars

\* A chunk that arrived after a completed file_end was handled and dropped,
\* and the file written before it is as it was.
C9_Witness ==
    /\ Len(handled) = 4 /\ raised = {}
    /\ arrived[1].kind = "file_start"
    /\ arrived[2] = Frame("binary", "", <<1>>, NoFilename)
    /\ arrived[3].kind = "file_end"
    /\ arrived[4] = Frame("binary", "", <<2, 3>>, NoFilename)
    /\ ~receiving_file
    /\ file_buffer = <<1>>
    /\ files[ResolvePath(arrived[1])] = <<1>>

\* C10 (as claimed): after the handling of a file_end that ends an active
\* reception, whatever its outcome, the whole buffer is in the file at the
\* target path and the reception is inactive.
C10_FlushedAndInactiveAlways ==
    [][(HandlesFileEnd /\ receiving_file)
       => /\ files'[received_file_path] = file_buffer
          /\ ~receiving_file']_vars

\* C10 (amended): a file_end whose write succeeds puts the whole buffer in the
\* file at the target path in one write, touching no other file, and leaves
\* the reception inactive; a file_end whose write fails ends with the
\* exception and leaves receiving_file, the buffer and the path as they were.
C10_FlushedAndInactiveOnSuccess ==
    [][HandlesFileEnd
       => IF NextTask \notin raised'
          THEN /\ files' = [files EXCEPT ![received_file_path] = file_buffer]
               /\ ~receiving_file'
          ELSE /\ receiving_file' = receiving_file
               /\ file_buffer' = file_buffer
               /\ received_file_path' = received_file_path]_vars

\* An active reception with bytes buffered was flushed by a file_end.
C10_Witness ==
    \E i \in DOMAIN handled :
        /\ arrived[handled[i]].kind = "file_end"
        /\ handled[i] \notin raised
        /\ i = Len(handled)
        /\ i > 1
        /\ arrived[handled[i - 1]].kind = "binary"
        /\ file_buffer # <<>>
        /\ files[received_file_path] = file_buffer
        /\ ~receiving_file

\* ------------------------------------------------------------ properties: written artifacts

\* The latest file_start among the frames before k, or 0.
LastStartBefore(k) ==
    LET starts == {j \in 1..(k - 1) : arrived[j].kind = "file_start"} IN
    IF starts = {} THEN 0 ELSE CHOOSE j \in starts : \A i \in starts : i <= j

RECURSIVE ChunksUntilFileEnd(_, _)
\* The payloads of the binary frames among arrived[i..j] that come before the
\* first file_end among them, in arrival order.
ChunksUntilFileEnd(i, j) ==
    IF i > j \/ arrived[i].kind = "file_end" THEN <<>>
    ELSE (IF arrived[i].kind = "binary" THEN arrived[i].bytes ELSE <<>>)
         \o ChunksUntilFileEnd(i + 1, j)

RECURSIVE ChunksUntilFlush(_, _)
\* The same, up to the first file_end among them whose handling completed.
ChunksUntilFlush(i, j) ==
    IF i > j \/ (arrived[i].kind = "file_end" /\ i \notin raised) THEN <<>>
    ELSE (IF arrived[i].kind = "binary" THEN arrived[i].bytes ELSE <<>>)
         \o ChunksUntilFlush(i + 1, j)

IsPrefix(a, b) == Len(a) <= Len(b) /\ a = SubSeq(b, 1, Len(a))

\* This step is the handling of file_end frame k writing the file at path.
Writes(path) ==
    /\ HandlesFileEnd
    /\ files'[path] # files[path]

\* C23 (as claimed): what the handling of a file_end writes consists only of
\* the binary frames that arrived since the latest file_start and before any
\* file_end that followed it; it is empty when no file_start arrived.
C23_OnlyChunksSinceStart ==
    [][\A path \in Paths :
          (ready # <<>> /\ NextFrame.kind = "file_end" /\ Writes(path))
          => LET k == NextTask
                 j == LastStartBefore(k) IN
             IsPrefix(files'[path],
                      IF j = 0 THEN <<>> ELSE ChunksUntilFileEnd(j + 1, k - 1))]_vars

\* C23 (amended): ... and before any file_end that followed it and was
\* handled to its end; all of them when the write succeeds.
C23_OnlyChunksSinceStartOrFailedFlush ==
    /\ [][\A path \in Paths :
          (ready # <<>> /\ NextFrame.kind = "file_end" /\ Writes(path))
          => LET k == NextTask
                 j == LastStartBefore(k)
                 expected == IF j = 0 THEN <<>> ELSE ChunksUntilFlush(j + 1, k - 1) IN
             /\ path = received_file_path
             /\ IsPrefix(files'[path], expected)]_vars
    /\ [][(ready # <<>> /\ NextFrame.kind = "file_end" /\ Completes(NextTask))
          => LET k == NextTask
                 j == LastStartBefore(k) IN
             files'[received_file_path]
                 = IF j = 0 THEN <<>> ELSE ChunksUntilFlush(j + 1, k - 1)]_vars

\* A chunk was buffered and dropped by a second file_start; the file was
\* written with the chunk that followed; a chunk that arrived after the
\* file_end was dropped, and the file is as written.
C23_Witness ==
    /\ Len(arrived) = 5
    /\ arrived[1].kind = "binary"
    /\ arrived[2] = Frame("file_start", "", <<>>, "f.bin")
    /\ arrived[3] = Frame("binary", "", <<2, 3>>, NoFilename)
    /\ arrived[4].kind = "file_end"
    /\ arrived[5] = Frame("binary", "", <<1>>, NoFilename)
    /\ Len(handled) = 5
    /\ raised = {}
    /\ files["f.bin"] = <<2, 3>>

\* ------------------------------------------------------------ properties: error containment

\* This step is the handler task of a frame that is not JSON, or of a JSON
\* frame of an unknown "type", running to its end.
HandlesBadFrame ==
    /\ ready # <<>>
    /\ NextFrame.kind \in {"malformed", "unknown"}
    /\ Handles(NextTask)

Tasks(q) == {q[m] : m \in DOMAIN q}

\* C18: the handling of a frame that is not JSON or has an unknown "type"
\* leaves the file reception context (path, buffer, active flag), the files,
\* the channel and what was sent as they are, and loses no other task: every
\* frame that has arrived has been handled or has its task in the queue.
C18_BadFrameContained ==
    /\ [][HandlesBadFrame
          => /\ UNCHANGED <<received_file_path, file_buffer, receiving_file, files,
                            data_channel, sent, llm_calls, arrived>>
             /\ Tasks(ready') = Tasks(ready) \ {NextTask}]_vars
    /\ [](DOMAIN arrived = Tasks(handled) \cup Tasks(ready))

\* A text frame that is not JSON arrived in the middle of a file transfer and
\* its task raised; the chunks before and after it and the file_end were
\* handled and the file holds both chunks.
C18_Witness ==
    /\ Len(arrived) = 5
    /\ arrived[1] = Frame("file_start", "", <<>>, "f.bin")
    /\ arrived[2].kind = "binary"
    /\ arrived[3].kind = "malformed"
    /\ arrived[4].kind = "binary"
    /\ arrived[5].kind = "file_end"
    /\ handled = <<1, 2, 3, 4, 5>>
    /\ raised = {3}
    /\ files["f.bin"] = arrived[2].bytes \o arrived[4].bytes

\* ------------------------------------------------------------ properties: send path

\* The frame at position i of the wire opens a file transfer that has not
\* sent its file_end before position j.
TransferOpen(i, j) ==
    /\ sent[i].type = "file_start"
    /\ ~\E k \in (i + 1)..(j - 1) :
           sent_by[k] = sent_by[i] /\ sent[k].type = "file_end"

\* C11: sends on one Session exclude one another: at most one send call is
\* inside its frame-emitting section, it holds the lock, and on the wire no
\* frame of another call lies between the file_start of a transfer and the
\* frames that follow from it.
C11_SendsNeverInterleave ==
    /\ \A s \in Senders, t \in Senders :
          (send_pc[s] = "chunks" /\ send_pc[t] = "chunks") => s = t
    /\ \A s \in Senders : send_pc[s] = "chunks" => lock = s
    /\ \A i \in DOMAIN sent, j \in DOMAIN sent :
          (i < j /\ TransferOpen(i, j)) => sent_by[j] = sent_by[i]

\* A file transfer is on the wire with one chunk sent, and a send_text and
\* another send_file called meanwhile are both held back by the lock.
C11_Witness ==
    \E s \in Senders :
        /\ send_pc[s] = "chunks"
        /\ sent # <<>>
        /\ sent[Len(sent)].type = "binary"
        /\ Len(lock_waiters) = 2
        /\ {send_pc[lock_waiters[1]], send_pc[lock_waiters[2]]} = {"wait_text", "wait_file"}

\* This step is the body of the send_text call s running.
RunsSendText(s) ==
    /\ send_pc[s] \in {"idle", "wait_text"}
    /\ send_pc'[s] \notin {"idle", "wait_text", "wait_file", "chunks", "file_failed"}

\* C12: a send_text that finds no open data channel (none stored, or one that
\* is not in readyState "open") emits no frame, returns without raising, does
\* not keep the send lock and changes nothing of the Session.
C12_SendTextWithoutChannelIsNoOp ==
    [][\A s \in Senders :
          (RunsSendText(s) /\ data_channel # "open")
          => /\ sent' = sent
             /\ send_pc'[s] = "text_returned"
             /\ lock' # s
             /\ UNCHANGED <<data_channel, connected, iceConnectionState, pc_closed,
                            file_buffer, receiving_file, received_file_path, files>>]_vars

\* One send_text put its frame on the open channel; after the channel closed
\* another send_text returned and left the wire as it was.
C12_Witness ==
    /\ data_channel = "closed"
    /\ \E s \in Senders, t \in Senders :
          /\ send_pc[s] = "text_returned"
          /\ send_pc[t] = "text_returned"
          /\ sent_by = <<t>>
          /\ s # t

\* ------------------------------------------------------------ properties: connection

\* The Session is FAILED or CLOSED: the transport reported "failed", or the
\* peer connection was closed (by the failure handler or by stop()).
Terminal == iceConnectionState \in {"failed", "closed"}

\* C3: once the Session is FAILED or CLOSED it stays so, and the connected
\* flag is never set again.
C3_TerminalStatesAbsorbing ==
    [][Terminal => (Terminal' /\ (connected' => connected))]_vars

\* The Session was connected (start() returned), the transport then failed,
\* the failure handler closed the engine and cleared the flag, and every later
\* handler task has run.
C3_Witness ==
    /\ iceConnectionState = "closed"
    /\ start_result = "returned"
    /\ ~connected
    /\ closing = 0
    /\ ice_handlers = <<>>
    /\ run_pc = "serving"

\* C4 (as claimed): a start() that is suspended in the wait for the connection
\* when the transport reports "failed" is eventually released.
C4_FailureReleasesWait ==
    (run_pc = "suspended" /\ iceConnectionState = "failed") ~> (run_pc # "suspended")

\* ------------------------------------------------------------ properties: handshake, ICE loops, stop

\* run_server has left stop(), by return or by an exception.
StopLeft == run_pc \in {"stopped", "stop_raised", "exited", "exited_raised"}

\* C13 (as claimed): stop() is best-effort: once stop() is over, the release
\* of the transport engine and of the signaling channel has been attempted,
\* and that of the media recorder if there is one, whichever release failed.
C13_StopAttemptsEveryRelease ==
    StopLeft =>
        /\ {"pc", "signaling"} \subseteq stop_attempted
        /\ media_recorder # None => "recorder" \in stop_attempted

\* C14: the answer is sent only after an offer was received and committed as
\* remote description and the answer was committed as local description; the
\* ICE exchange is launched only after the answer was sent, in a handshake no
\* step of which has failed.
C14_AnswererOrdering ==
    /\ [](answer_sent => (request = "offer" /\ {"remote", "local"} \subseteq descriptions))
    /\ [](ice_task # "none" => answer_sent)
    /\ [][(ice_task = "none" /\ ice_task' # "none")
          => (answer_sent' /\ start_result = "pending" /\ start_result' = "pending")]_vars

\* The handshake went through: the answer is sent, both descriptions are
\* committed and both ICE loops run.
C14_Witness ==
    /\ answer_sent
    /\ descriptions = {"remote", "local"}
    /\ ice_task = "running"
    /\ ice_sender = "running"
    /\ start_result = "pending"

\* C15: when the first signaling message is not an offer (it is not JSON, it
\* is JSON without the offer's fields, or it is the null of a closed channel),
\* start() has raised to run_server, which is in stop() or past it: start()
\* never waited for the connection, setup_media did not run, no answer was
\* sent and no ICE exchange was launched.
C15_HandshakeErrorsPropagate ==
    request \in {"candidate", "not_json", "closed"} =>
        /\ start_result = "raised"
        /\ run_pc \in {"stop_recorder", "stop_pc", "stop_signaling", "stopped",
                       "stop_raised", "exited", "exited_raised"}
        /\ ~answer_sent
        /\ descriptions = {}
        /\ ice_task = "none"
        /\ media_recorder # "recording"

\* The channel was closed before any message arrived; start() raised and
\* run_server went through stop().
C15_Witness ==
    /\ request = "closed"
    /\ start_result = "raised"
    /\ run_pc = "stopped"

\* C16: the outbound loop ends exactly when the engine has no more candidate,
\* the inbound loop ends when the signaling channel reports close, the end or
\* the failure of one loop leaves the other as it is, and the loop that is
\* left can still take its next turn.
C16_IceLoopsIndependent ==
    /\ [][/\ (ice_sender = "running" /\ ice_sender' = "done") => last_candidate' = None
          /\ (ice_sender = "running" /\ last_candidate' = None) => ice_sender' = "done"
          /\ (ice_task = "running" /\ ice_task' = "done") => last_message' = "closed"
          /\ (ice_task = "running" /\ last_message' = "closed") => ice_task' = "done"
          /\ (ice_task = "running" /\ ice_task' \in {"done", "raised"})
             => ice_sender' = ice_sender
          /\ (ice_sender = "running" /\ ice_sender' \in {"done", "raised"})
             => ice_task' = ice_task]_vars
    /\ []((ice_task \in {"done", "raised"} /\ ice_sender = "running")
          => ENABLED (\E candidate \in {"candidate", None} : PullCandidate(candidate)))
    /\ []((ice_sender \in {"done", "raised"} /\ ice_task = "running")
          => ENABLED (\E message \in SignalingMessages : InboundReceive(message)))

\* The inbound loop failed on a message that is not JSON; the outbound loop
\* has sent a candidate and is still running.
C16_Witness ==
    /\ ice_task = "raised"
    /\ last_message = "not_json"
    /\ ice_sender = "running"
    /\ last_candidate = "candidate"

\* This step is setup_media running in start().
RunsSetupMedia ==
    /\ run_pc = "setup_media"
    /\ start_result = "pending"
    /\ start_result' \in {"returned", "raised"}

\* The Session is CONNECTED: the transport is connected (a transient
\* "disconnected" of a connected transport included).
SessionConnected == iceConnectionState \in {"connected", "disconnected"}

\* C17 (as claimed): setup_media runs only after the handshake completed,
\* and when it runs the Session is CONNECTED, neither FAILED nor CLOSED.
C17_SetupOnlyWhenConnected ==
    [][RunsSetupMedia => (answer_sent /\ ice_task # "none" /\ SessionConnected)]_vars

\* C20: when stop() has completed, the transport engine and the signaling
\* channel are closed, and both ICE loops end: neither is running for ever.
C20_StopEndsSession ==
    /\ [](run_pc \in {"stopped", "exited"}
          => (pc_closed /\ iceConnectionState = "closed" /\ signaling = "closed"))
    /\ (run_pc = "stopped") ~> (ice_task # "running" /\ ice_sender # "running")

\* stop() completed after a handshake: the inbound loop ended by itself on
\* the closed channel and the outbound loop was cancelled with the event loop.
C20_Witness ==
    /\ run_pc = "exited"
    /\ ice_task = "done"
    /\ ice_sender = "cancelled"

\* ------------------------------------------------------------ properties: ICE handler, signaling messages

\* This step is the handler task emitted for a report of `state` running up
\* to its first await.
HandlerRuns(state) ==
    /\ ice_handlers # <<>>
    /\ Head(ice_handlers) = state
    /\ run_pc' \notin {"exited", "exited_raised"}
    /\ ice_handlers' \in {Tail(ice_handlers), Append(Tail(ice_handlers), "closed")}

\* This step is a handler resuming after its "await self.pc.close()".
HandlerResumes ==
    /\ closing > 0
    /\ closing' = closing - 1
    /\ run_pc' = run_pc

\* C21 (as claimed): the handler of a report of "failed" closes the engine
\* and then clears the connected flag, the handler of a report of "connected"
\* sets the flag, and nothing but the handler writes the flag.
C21_HandlerActsOnReport ==
    [][/\ HandlerRuns("connected") => connected'
       /\ HandlerRuns("failed") => pc_closed'
       /\ HandlerResumes => ~connected'
       /\ connected' # connected
          => (HandlerResumes \/ \E state \in {"checking", "connected", "disconnected",
                                               "failed", "closed"} : HandlerRuns(state))]_vars

\* C22 (as claimed): every parsed signaling message is read as what its
\* fields make it: a message with sdp/type as an offer, a message with
\* candidate/sdpMid/sdpMLineIndex as a candidate, wherever it comes.
C22_ClassifiedByFields ==
    \A c \in classified : c[1] = c[2]

\* C24: an inbound message that is not JSON or lacks the candidate's fields
\* ends the inbound loop with an exception that changes neither start() nor
\* the connection state nor the outbound loop; after it the loop receives no
\* message, so it feeds no later candidate to the engine.
C24_InboundLoopFailFast ==
    /\ [][(ice_task = "running" /\ last_message' \in {"not_json", "offer"})
          => /\ ice_task' = "raised"
             /\ UNCHANGED <<run_pc, start_result, iceConnectionState, connected,
                            pc_closed, signaling, ice_sender>>]_vars
    /\ [][ice_task = "raised"
          => (ice_task' = "raised" /\ last_message' = last_message)]_vars

\* The Session is connected and start() has returned; the inbound loop has
\* failed on a message with sdp/type and start()'s result is what it was.
C24_Witness ==
    /\ ice_task = "raised"
    /\ last_message = "offer"
    /\ start_result = "returned"
    /\ iceConnectionState = "connected"
    /\ connected
    /\ run_pc = "serving"

\* ------------------------------------------------------------ properties: Client

\* C6 (as claimed): the request/response connection and the realtime
\* connection are never both established.
C6_AtMostOneTransport ==
    ~(https_connection # None /\ webrtc_connection # None)

\* This step is a connect_to_server call that returns without raising.
ConnectReturns == client_log' = Append(client_log, "connect")
LastCall == IF client_log = <<>> THEN "" ELSE client_log[Len(client_log)]

\* C7 (as claimed): the connect_to_server that follows a toggle away from
\* request/response establishes the realtime connection, and the one that
\* follows a toggle away from realtime establishes the request/response
\* connection.
C7_ConnectAfterToggleSwitches ==
    [][ConnectReturns
       => /\ LastCall = "toggle_from_https" => webrtc_connection' # None
          /\ LastCall = "toggle_from_webrtc" => https_connection' # None]_vars

\* This step is a send_* or receive_* call.
Operates ==
    /\ client_log' # client_log
    /\ client_log'[Len(client_log')] \in {"send", "receive"}

\* C19 (as claimed): a send_* or receive_* call uses the realtime connection
\* only when is_webrtc_enabled is true and the request/response connection
\* only when it is false.
C19_OperationUsesActiveTransport ==
    [][Operates
       => /\ transport_used' = "webrtc" => is_webrtc_enabled
          /\ transport_used' = "https" => ~is_webrtc_enabled]_vars

\* C26: whenever the realtime connection is set the flag is true, whatever
\* calls were made and whichever of them failed.
C26_RealtimeConnectionImpliesFlag ==
    webrtc_connection # None => is_webrtc_enabled

\* The realtime connection is the only one, and closing it in toggle_protocol
\* has just failed: connection and flag are both as they were.
C26_Witness ==
    /\ webrtc_connection # None
    /\ https_connection = None
    /\ is_webrtc_enabled
    /\ LastCall = "toggle_failed"

\* This step is a call on the Client that logs `entry`.
Logs(entry) ==
    /\ client_log' # client_log
    /\ client_log'[Len(client_log')] = entry

\* C27: an exception inside a send_* call is logged and the call returns; an
\* exception inside a receive_* call makes it return None; neither changes
\* https_connection, webrtc_connection or is_webrtc_enabled; the only call
\* that raises to its caller is a failed connect_to_server.
C27_ClientErrorsContained ==
    [][/\ Logs("send_failed")
          => /\ call_result' = "returned"
             /\ UNCHANGED <<https_connection, webrtc_connection, is_webrtc_enabled>>
       /\ Logs("receive_failed")
          => /\ call_result' = None
             /\ UNCHANGED <<https_connection, webrtc_connection, is_webrtc_enabled>>
       /\ Logs("connect_raised") => call_result' = "raised"
       /\ (client_log' # client_log /\ call_result' = "raised")
          => Logs("connect_raised")]_vars

\* On an established request/response connection a send_* call failed and
\* then a receive_* call failed and returned None; the connection is still
\* there.
C27_Witness ==
    /\ Len(client_log) >= 3
    /\ client_log[Len(client_log) - 1] = "send_failed"
    /\ LastCall = "receive_failed"
    /\ call_result = None
    /\ https_connection # None

\* ------------------------------------------------------------ properties: Client, realtime receive

\* This step is a receive_* call returning.
ReceiveReturns == Len(rx_returned') = Len(rx_returned) + 1
\* What it returns, and the messages the call has read.
Returned == rx_returned'[Len(rx_returned')]
ReadByCall == (rx_from + 1)..ws_read'
OfType(want) == {i \in ReadByCall : ws_sent[i].type = want}

\* C25 (as claimed): a receive_X call that has read a message of type X
\* returns the payload of the first such message, and no message it has read
\* is delivered to a later call.
C25_ReturnsFirstOfType ==
    [][ReceiveReturns
       => /\ OfType(rx_want) # {}
             => /\ Returned.got \in OfType(rx_want)
                /\ \A i \in OfType(rx_want) : Returned.got <= i
          /\ Returned.got # 0 => Returned.got > rx_from]_vars

\* C25 (amended): a receive_X call returns the payload of the first message
\* of type X it reads when that payload can be decoded and every message read
\* before it is a JSON envelope of another type; it returns None when it
\* reads a message that is not JSON or a message of type X whose payload
\* cannot be decoded, or when recv() fails. The messages a call has read are
\* consumed: none is read or delivered again.
C25_ReturnsFirstDecodableOfType ==
    /\ [][ReceiveReturns
          => /\ Returned.got # 0
                => /\ Returned.got = ws_read'
                   /\ Returned.got > rx_from
                   /\ ws_sent[Returned.got] = Message(rx_want, TRUE)
                   /\ \A i \in ReadByCall \ {Returned.got} :
                         ws_sent[i].type \notin {rx_want, "not_json"}
             /\ Returned.got = 0
                => \A i \in ReadByCall :
                      /\ ws_sent[i] # Message(rx_want, TRUE)
                      /\ ws_sent[i].type \in {rx_want, "not_json"} => i = ws_read']_vars
    /\ [][ws_read' >= ws_read]_vars
    /\ [](\A m \in DOMAIN rx_returned, n \in DOMAIN rx_returned :
             (m < n /\ rx_returned[n].got # 0) => rx_returned[m].got < rx_returned[n].got)

\* receive_text read an audio message, dropped it and returned the text that
\* followed; the receive_audio call after it returned the next audio message,
\* not the one that was dropped.
C25_Witness ==
    /\ Len(ws_sent) >= 3
    /\ ws_sent[1] = Message("audio", TRUE)
    /\ ws_sent[2] = Message("text", TRUE)
    /\ ws_sent[3] = Message("audio", TRUE)
    /\ rx_returned = <<[want |-> "text", got |-> 2], [want |-> "audio", got |-> 3]>>

\* ------------------------------------------------------------ specifications

Init == InitRecv /\ InitConn /\ InitClient /\ InitSend /\ InitRx

\* A Client whose only connection is the realtime one: two connect_to_server
\* calls followed by a toggle_protocol leave it so.
InitRealtime ==
    /\ InitRecv /\ InitConn /\ InitSend /\ InitRx
    /\ https_connection = None
    /\ webrtc_connection = "open"
    /\ is_webrtc_enabled = TRUE
    /\ client_log = <<"connect", "connect", "toggle_from_https">>
    /\ transport_used = "none"
    /\ call_result = "returned"

\* The Server's data-channel receive path.
Next == NextRecv
Spec == Init /\ [][Next]_vars

\* The Server's connection handling, start and stop.
SpecConn == Init /\ [][NextConn]_vars
\* The same, with the event loop running every task and coroutine that is
\* ready to run.
SpecConnFair ==
    /\ Init /\ [][NextConn]_vars
    /\ WF_vars(SignalingConnect)
    /\ WF_vars(\E message \in SignalingMessages : ReceiveOffer(message))
    /\ WF_vars(CreateAnswer)
    /\ WF_vars(SendAnswer)
    /\ WF_vars(WaitConnected)
    /\ WF_vars(SetupMedia)
    /\ WF_vars(RunIceHandler)
    /\ WF_vars(FinishFailedHandler)
    /\ WF_vars(StopRecorder)
    /\ WF_vars(StopPc)
    /\ WF_vars(StopSignaling)
    /\ WF_vars(LaunchSender)
    /\ WF_vars(LoopShutdown)

\* The dual-transport Client.
SpecClient == Init /\ [][NextClient]_vars

\* The send path of a Session: concurrent send_text and send_file calls.
SpecSend == Init /\ [][NextSend]_vars

\* The Client's receive_* calls on the realtime connection.
SpecReceive == InitRealtime /\ [][NextReceive]_vars
====
